---- MODULE Spec2Model ----
(***************************************************************************)
(* Model of src/app.py: the waitlist lifecycle, the settings store with    *)
(* its per-request initialisation, and the session-based admin gate.       *)
(*                                                                         *)
(* Text is modelled as a sequence of one-character strings (<<>> is the    *)
(* empty string), so that strip(), normalize_phone() and int() are         *)
(* computed character by character as the code computes them.  A nullable  *)
(* column holds <<>> for NULL and <<t>> for the timestamp t; a timestamp   *)
(* is the number of clock ticks, which orders exactly as the fixed-width   *)
(* "%Y-%m-%d %H:%M:%S" text that utc_now_str() produces.                   *)
(***************************************************************************)
EXTENDS Integers, Sequences, FiniteSets, TLC

VARIABLES
  waitlist,   \* table waitlist: row id i is waitlist[i] (AUTOINCREMENT, rows never removed)
  settings,   \* table settings: a function from the keys present to their values
  is_admin,   \* session["is_admin"] of every browser session
  now,        \* the wall clock read by utc_now_str()
  resp,       \* the response of the last request: where it went and the rows it carried
  call,       \* the last direct call of the settings helpers and what it returned
  g_db        \* whether the current application context holds a connection (g._db)

vars == <<waitlist, settings, is_admin, now, resp, call, g_db>>

\* ------------------------------------------------------------------ bounds
MaxEntries == 2
MaxTime == 2

\* LIMIT 100 of the two public queries
QueryLimit == 100

Sessions == {"s1", "s2"}

\* ------------------------------------------------------------------ text
WS == {" "}
DigitChars == {"0", "1", "2", "3", "4", "5", "6", "7", "8", "9"}

DigitVal(ch) ==
  CASE ch = "0" -> 0 [] ch = "1" -> 1 [] ch = "2" -> 2 [] ch = "3" -> 3
    [] ch = "4" -> 4 [] ch = "5" -> 5 [] ch = "6" -> 6 [] ch = "7" -> 7
    [] ch = "8" -> 8 [] OTHER -> 9

RECURSIVE lstrip(_)
lstrip(s) == IF s # <<>> /\ Head(s) \in WS THEN lstrip(Tail(s)) ELSE s

RECURSIVE rstrip(_)
rstrip(s) ==
  IF s # <<>> /\ s[Len(s)] \in WS THEN rstrip(SubSeq(s, 1, Len(s) - 1)) ELSE s

\* str.strip()
strip(s) == rstrip(lstrip(s))

IsPhoneChar(ch) == ch \in DigitChars \/ ch = "+"

\* normalize_phone: keep the digits and every "+", wherever they stand
normalize_phone(p) == SelectSeq(p, IsPhoneChar)

RECURSIVE DigitsValue(_)
DigitsValue(s) ==
  IF s = <<>> THEN 0
  ELSE 10 * DigitsValue(SubSeq(s, 1, Len(s) - 1)) + DigitVal(s[Len(s)])

AllDigits(s) == s # <<>> /\ \A i \in 1..Len(s) : s[i] \in DigitChars

\* int(seats) inside try/except: surrounding whitespace is ignored, one sign is
\* allowed, the rest must be digits; anything else (a missing field, "", "x")
\* raises and the handler falls back to 0.
form_int(raw) ==
  LET t == strip(raw)
      signed == t # <<>> /\ Head(t) \in {"+", "-"}
      body == IF signed THEN Tail(t) ELSE t
  IN  IF ~AllDigits(body) THEN 0
      ELSE IF signed /\ Head(t) = "-" THEN 0 - DigitsValue(body)
      ELSE DigitsValue(body)

\* ------------------------------------------------------------------ values
NULL == <<>>
At(t) == <<t>>

\* a settings value: SQL NULL, or a text
NullValue == [null |-> TRUE, text |-> <<>>]
Text(s) == [null |-> FALSE, text |-> s]

OPEN == <<"open">>
WAITLIST == <<"waitlist">>

Response(to, flash, rows) == [to |-> to, flash |-> flash, rows |-> rows]
NoResp == Response("", "", <<>>)
Call(op, key, arg, ret) == [op |-> op, key |-> key, arg |-> arg, ret |-> ret]
NoCall == Call("", "", NullValue, NullValue)

\* ------------------------------------------------------------------ settings
\* INSERT ... ON CONFLICT(key) DO UPDATE SET value=excluded.value
Upsert(st, key, value) ==
  [k \in (DOMAIN st) \cup {key} |-> IF k = key THEN value ELSE st[k]]

\* a get_setting that also treats an empty text as missing
get_setting_empty_as_default(st, key, default) ==
  IF key \in DOMAIN st /\ ~st[key].null /\ st[key].text # <<>>
  THEN st[key].text ELSE default

\* get_setting: the default stands in when there is no row or its value IS NULL
get_setting(st, key, default) ==
  IF key \in DOMAIN st /\ ~st[key].null THEN st[key].text ELSE default

set_setting(st, key, value) == Upsert(st, key, value)

\* the process environment: ADMIN_PIN unset, or set to some text
Environ == {[set |-> FALSE, val |-> <<>>], [set |-> TRUE, val |-> <<" ", "7", " ">>]}
DefaultPin == <<"1", "2", "3", "4", "5", "6">>

\* os.getenv("ADMIN_PIN", "123456")
getenv_admin_pin(env) == IF env.set THEN env.val ELSE DefaultPin

\* the salts generate_password_hash may draw
Salts == {"s1", "s2"}

\* werkzeug's "method$salt$digest": the digest is a function of salt and password
Digest(salt, password) == <<salt>> \o password
generate_password_hash(password, salt) == <<"pbkdf2", salt>> \o Digest(salt, password)

check_password_hash(pwhash, password) ==
  /\ Len(pwhash) >= 2
  /\ pwhash[1] = "pbkdf2"
  /\ SubSeq(pwhash, 3, Len(pwhash)) = Digest(pwhash[2], password)

\* INSERT OR IGNORE INTO settings(key,value) VALUES('display_mode','open')
ensure_display_default(st) ==
  IF "display_mode" \in DOMAIN st THEN st ELSE Upsert(st, "display_mode", Text(OPEN))

\* `not row or not row["value"]`: no row, a NULL value or an empty text
AdminPinMissing(st) ==
  \/ "admin_pin_hash" \notin DOMAIN st
  \/ st["admin_pin_hash"].null
  \/ st["admin_pin_hash"].text = <<>>

\* an initialisation that rewrites the hash on every start
ensure_admin_pin_reset(st, env, salt) ==
  Upsert(st, "admin_pin_hash",
         Text(generate_password_hash(strip(getenv_admin_pin(env)), salt)))

ensure_admin_pin(st, env, salt) ==
  IF AdminPinMissing(st)
  THEN Upsert(st, "admin_pin_hash",
              Text(generate_password_hash(strip(getenv_admin_pin(env)), salt)))
  ELSE st

\* what get_db leaves in the settings table when a request opens the database
get_db(st, env, salt) == ensure_admin_pin(ensure_display_default(st), env, salt)

\* the environment the server process runs in: ADMIN_PIN is not set
ProcessEnv == [set |-> FALSE, val |-> <<>>]

\* The environment and the salt are read only when _ensure_admin_pin has to
\* seed the hash: the draws a request opening the database can make.
SeedNeeded(st) == AdminPinMissing(ensure_display_default(st))
SaltDraws(st) == IF SeedNeeded(st) THEN Salts ELSE {CHOOSE x \in Salts : TRUE}
EnvDraws(st) == IF SeedNeeded(st) THEN Environ ELSE {ProcessEnv}

\* ------------------------------------------------------------------ queries
Min(a, b) == IF a < b THEN a ELSE b

\* ORDER BY datetime(requesttime) ASC: every order of the ids that does not
\* decrease in requesttime (SQL leaves the order of ties open)
OrderedByRequest(wl, ids) ==
  {q \in [1..Cardinality(ids) -> ids] :
     /\ \A i, j \in DOMAIN q : i # j => q[i] # q[j]
     /\ \A i, j \in DOMAIN q : i < j => wl[q[i]].requesttime <= wl[q[j]].requesttime}

Limit(q, n) == SubSeq(q, 1, Min(n, Len(q)))

\* the active filter without its deleted_at test
ActiveIds_with_deleted(wl) ==
  {i \in DOMAIN wl : wl[i].status \in {"WAITING", "ASSIGNING"}}

\* WHERE status IN ('WAITING','ASSIGNING') AND deleted_at IS NULL
ActiveIds(wl) ==
  {i \in DOMAIN wl : wl[i].status \in {"WAITING", "ASSIGNING"} /\ wl[i].deleted_at = NULL}

\* WHERE deleted_at IS NULL
LiveIds(wl) == {i \in DOMAIN wl : wl[i].deleted_at = NULL}

\* SELECT *: the row with its id
FullRow(wl, i) == [id |-> i] @@ wl[i]

\* the row api_waitlist sends: the selected columns and the timer's start
ApiRow(wl, i) ==
  LET r == wl[i]
      start_ts == IF r.status = "ASSIGNING" /\ r.assigned_at # NULL
                  THEN r.assigned_at[1] ELSE r.requesttime
  IN  [id |-> i, name |-> r.name, phone |-> r.phone, seats |-> r.seats,
       status |-> r.status, requesttime |-> r.requesttime,
       assigned_at |-> r.assigned_at, timer_start_utc |-> <<start_ts, "Z">>]

\* the result sets of the three SELECTs
ActiveQuery(wl) == {Limit(q, QueryLimit) : q \in OrderedByRequest(wl, ActiveIds(wl))}
AdminQuery(wl) == OrderedByRequest(wl, LiveIds(wl))

Init ==
  /\ waitlist = <<>>
  /\ settings = <<>>
  /\ is_admin = [s \in Sessions |-> FALSE]
  /\ now = 1
  /\ resp = NoResp
  /\ call = NoCall
  /\ g_db = FALSE

\* ------------------------------------------------------------------ inputs
\* form fields as the browser may send them (a missing field reads as "")
NameInputs == {<<>>, <<" ">>, <<" ", "A", " ">>}
PhoneInputs == {<<"-", " ">>, <<"+", "1", "-", "5">>}
SeatsInputs == {<<>>, <<"x">>, <<"0">>, <<"-", "1">>, <<" ", "2">>}
NotesInputs == {<<" ">>}
PinInputs == {<<>>, <<"1", "2", "3", "4", "5">>, <<" ", "1", "2", "3", "4", "5", "6">>}
ItemIds == 1..MaxEntries

\* ------------------------------------------------------------------ SQL writes
\* INSERT INTO waitlist (...) VALUES (?, ?, ?, ?, 'WAITING', ?, ?)
insert_entry(wl, name, phone, seats, notes, now_utc) ==
  Append(wl, [name |-> name, phone |-> phone, seats |-> seats, notes |-> notes,
              status |-> "WAITING", requesttime |-> now_utc,
              requested_at |-> At(now_utc), assigned_at |-> NULL,
              seated_at |-> NULL, deleted_at |-> NULL])

\* an assign without the deleted_at guard
assign_update_any_row(wl, item_id, now_utc) ==
  [i \in DOMAIN wl |->
     IF i = item_id
     THEN [wl[i] EXCEPT !.status = "ASSIGNING", !.assigned_at = At(now_utc)]
     ELSE wl[i]]

\* an assign that keeps an earlier assigned_at, as seated does with COALESCE
assign_update_first_write(wl, item_id, now_utc) ==
  [i \in DOMAIN wl |->
     IF i = item_id /\ wl[i].deleted_at = NULL
     THEN [wl[i] EXCEPT !.status = "ASSIGNING",
                        !.assigned_at = IF @ # NULL THEN @ ELSE At(now_utc)]
     ELSE wl[i]]

\* UPDATE waitlist SET status='ASSIGNING', assigned_at=? WHERE id=? AND deleted_at IS NULL
assign_update(wl, item_id, now_utc) ==
  [i \in DOMAIN wl |->
     IF i = item_id /\ wl[i].deleted_at = NULL
     THEN [wl[i] EXCEPT !.status = "ASSIGNING", !.assigned_at = At(now_utc)]
     ELSE wl[i]]

\* a seated without COALESCE: every call stamps seated_at anew
seated_update_overwrite(wl, item_id, now_utc) ==
  [i \in DOMAIN wl |->
     IF i = item_id /\ wl[i].deleted_at = NULL
     THEN [wl[i] EXCEPT !.status = "SEATED", !.seated_at = At(now_utc)]
     ELSE wl[i]]

\* a seated that sets the status and forgets the timestamp
seated_update_status_only(wl, item_id, now_utc) ==
  [i \in DOMAIN wl |->
     IF i = item_id /\ wl[i].deleted_at = NULL
     THEN [wl[i] EXCEPT !.status = "SEATED"]
     ELSE wl[i]]

\* UPDATE waitlist SET status='SEATED', seated_at=COALESCE(seated_at, ?)
\* WHERE id=? AND deleted_at IS NULL
seated_update(wl, item_id, now_utc) ==
  [i \in DOMAIN wl |->
     IF i = item_id /\ wl[i].deleted_at = NULL
     THEN [wl[i] EXCEPT !.status = "SEATED",
                        !.seated_at = IF @ # NULL THEN @ ELSE At(now_utc)]
     ELSE wl[i]]

\* UPDATE waitlist SET deleted_at=? WHERE id=? AND deleted_at IS NULL
delete_update(wl, item_id, now_utc) ==
  [i \in DOMAIN wl |->
     IF i = item_id /\ wl[i].deleted_at = NULL
     THEN [wl[i] EXCEPT !.deleted_at = At(now_utc)]
     ELSE wl[i]]

\* a validation that lets a party of zero seats through
form_valid_zero_seats(name, phone, seats) == name # <<>> /\ phone # <<>> /\ seats >= 0

\* the check add_waitlist_submit makes before it opens the database
form_valid(name, phone, seats) == name # <<>> /\ phone # <<>> /\ seats > 0

\* admin_required: what the wrapper answers when session["is_admin"] is not set
LoginRequired == Response("admin_login", "Admin login required.", <<>>)

\* the clock advances
Tick ==
  /\ now < MaxTime
  /\ now' = now + 1
  /\ UNCHANGED <<waitlist, settings, is_admin, resp, call, g_db>>

\* ------------------------------------------------------------------ handlers
\* what get_db leaves behind when a request of the server opens the database
request_db(salt) == get_db(settings, ProcessEnv, salt)

\* a wrapper that forgets the check
admin_required_open(s, view) == view

\* admin_required: the view runs only when session["is_admin"] is set; otherwise
\* the request is redirected to the login page before anything is read or written
admin_required(s, view) ==
  IF ~is_admin[s]
  THEN /\ resp' = LoginRequired
       /\ UNCHANGED <<waitlist, settings, is_admin, now, call, g_db>>
  ELSE view

\* GET /: the home page, with the active rows when the display shows the waitlist
home(salt) ==
  /\ settings' = request_db(salt)
  /\ \E q \in (IF get_setting(request_db(salt), "display_mode", OPEN) = WAITLIST
               THEN ActiveQuery(waitlist) ELSE {<<>>}) :
       resp' = Response("home.html", "", [k \in DOMAIN q |-> FullRow(waitlist, q[k])])
  /\ UNCHANGED <<waitlist, is_admin, now, call, g_db>>

\* POST /add_waitlist
add_waitlist_submit(name_in, phone_in, notes_in, seats_in, salt) ==
  IF ~form_valid(strip(name_in), normalize_phone(phone_in), form_int(seats_in))
  THEN /\ resp' = Response("add_waitlist_form",
                           "Enter name, valid phone, and seats (>0).", <<>>)
       /\ UNCHANGED <<waitlist, settings, is_admin, now, call, g_db>>
  ELSE /\ Len(waitlist) < MaxEntries
       /\ settings' = request_db(salt)
       /\ waitlist' = insert_entry(waitlist, strip(name_in), normalize_phone(phone_in),
                                   form_int(seats_in), strip(notes_in), now)
       /\ resp' = Response("home", "Party added to waitlist.", <<>>)
       /\ UNCHANGED <<is_admin, now, call, g_db>>

\* GET /waitlist (admin)
waitlist_admin_view(salt) ==
  /\ settings' = request_db(salt)
  /\ \E q \in AdminQuery(waitlist) :
       resp' = Response("waitlist_admin.html", "",
                        [k \in DOMAIN q |-> FullRow(waitlist, q[k])])
  /\ UNCHANGED <<waitlist, is_admin, now, call, g_db>>

waitlist_admin(s, salt) == admin_required(s, waitlist_admin_view(salt))

\* POST /waitlist/<id>/assign (admin)
waitlist_assign_view(item_id, salt) ==
  /\ settings' = request_db(salt)
  /\ waitlist' = assign_update(waitlist, item_id, now)
  /\ resp' = Response("waitlist_admin", "", <<>>)
  /\ UNCHANGED <<is_admin, now, call, g_db>>

waitlist_assign(s, item_id, salt) == admin_required(s, waitlist_assign_view(item_id, salt))

\* POST /waitlist/<id>/seated (admin)
waitlist_seated_view(item_id, salt) ==
  /\ settings' = request_db(salt)
  /\ waitlist' = seated_update(waitlist, item_id, now)
  /\ resp' = Response("waitlist_admin", "", <<>>)
  /\ UNCHANGED <<is_admin, now, call, g_db>>

waitlist_seated(s, item_id, salt) == admin_required(s, waitlist_seated_view(item_id, salt))

\* POST /waitlist/<id>/delete (admin)
waitlist_delete_view(item_id, salt) ==
  /\ settings' = request_db(salt)
  /\ waitlist' = delete_update(waitlist, item_id, now)
  /\ resp' = Response("waitlist_admin", "Entry removed.", <<>>)
  /\ UNCHANGED <<is_admin, now, call, g_db>>

waitlist_delete(s, item_id, salt) == admin_required(s, waitlist_delete_view(item_id, salt))

\* POST /display/start (admin)
display_start_view(salt) ==
  /\ settings' = set_setting(request_db(salt), "display_mode", Text(WAITLIST))
  /\ resp' = Response("waitlist_admin",
                      "Display started. Home now shows the waitlist.", <<>>)
  /\ UNCHANGED <<waitlist, is_admin, now, call, g_db>>

display_start(s, salt) == admin_required(s, display_start_view(salt))

\* POST /display/stop (admin)
display_stop_view(salt) ==
  /\ settings' = set_setting(request_db(salt), "display_mode", Text(OPEN))
  /\ resp' = Response("waitlist_admin",
                      "Display stopped. Home shows 'COME ON IN'.", <<>>)
  /\ UNCHANGED <<waitlist, is_admin, now, call, g_db>>

display_stop(s, salt) == admin_required(s, display_stop_view(salt))

\* the test admin_login_post makes on the stored row
pin_accepted(db, pin) ==
  /\ "admin_pin_hash" \in DOMAIN db
  /\ ~db["admin_pin_hash"].null
  /\ check_password_hash(db["admin_pin_hash"].text, pin)

\* POST /admin/login
admin_login_post(s, pin_in, salt) ==
  /\ settings' = request_db(salt)
  /\ IF pin_accepted(request_db(salt), strip(pin_in))
     THEN /\ is_admin' = [is_admin EXCEPT ![s] = TRUE]
          /\ resp' = Response("next_url", "Logged in as admin.", <<>>)
     ELSE /\ is_admin' = is_admin
          /\ resp' = Response("admin_login", "Invalid PIN.", <<>>)
  /\ UNCHANGED <<waitlist, now, call, g_db>>

\* POST /admin/logout
admin_logout(s) ==
  /\ is_admin' = [is_admin EXCEPT ![s] = FALSE]
  /\ resp' = Response("home", "Logged out.", <<>>)
  /\ UNCHANGED <<waitlist, settings, now, call, g_db>>

\* GET /api/waitlist
api_waitlist(salt) ==
  /\ settings' = request_db(salt)
  /\ \E q \in ActiveQuery(waitlist) :
       resp' = Response("json", "", [k \in DOMAIN q |-> ApiRow(waitlist, q[k])])
  /\ UNCHANGED <<waitlist, is_admin, now, call, g_db>>

Next ==
  \/ Tick
  \/ \E x \in SaltDraws(settings) : home(x)
  \/ \E x \in SaltDraws(settings) : api_waitlist(x)
  \/ \E x \in SaltDraws(settings), n \in NameInputs, p \in PhoneInputs,
        no \in NotesInputs, se \in SeatsInputs :
       add_waitlist_submit(n, p, no, se, x)
  \/ \E x \in SaltDraws(settings), s \in Sessions : waitlist_admin(s, x)
  \/ \E x \in SaltDraws(settings), s \in Sessions, i \in ItemIds : waitlist_assign(s, i, x)
  \/ \E x \in SaltDraws(settings), s \in Sessions, i \in ItemIds : waitlist_seated(s, i, x)
  \/ \E x \in SaltDraws(settings), s \in Sessions, i \in ItemIds : waitlist_delete(s, i, x)
  \/ \E x \in SaltDraws(settings), s \in Sessions : display_start(s, x)
  \/ \E x \in SaltDraws(settings), s \in Sessions : display_stop(s, x)
  \/ \E x \in SaltDraws(settings), s \in Sessions, pin \in PinInputs :
       admin_login_post(s, pin, x)
  \/ \E s \in Sessions : admin_logout(s)

Spec == Init /\ [][Next]_vars

\* ------------------------------------------------------------------ settings helpers called directly
SettingKeys == {"display_mode", "admin_pin_hash", "theme"}
SettingValues == {NullValue, Text(<<>>), Text(OPEN), Text(WAITLIST)}
SettingDefaults == {<<>>, OPEN, <<"dflt">>}

\* get_db() inside one application context: the first call opens the database
\* and runs the three _ensure_ steps, later calls return g._db as it is
context_db(env, salt) == IF g_db THEN settings ELSE get_db(settings, env, salt)

call_get_db(env, salt) ==
  /\ settings' = context_db(env, salt)
  /\ g_db' = TRUE
  /\ call' = Call("get_db", "", NullValue, Text(IF g_db THEN <<"g._db">> ELSE <<"connect">>))
  /\ UNCHANGED <<waitlist, is_admin, now, resp>>

call_get_setting(key, default, env, salt) ==
  LET db == context_db(env, salt) IN
  /\ settings' = db
  /\ g_db' = TRUE
  /\ call' = Call("get_setting", key, Text(default), Text(get_setting(db, key, default)))
  /\ UNCHANGED <<waitlist, is_admin, now, resp>>

call_set_setting(key, value, env, salt) ==
  /\ settings' = set_setting(context_db(env, salt), key, value)
  /\ g_db' = TRUE
  /\ call' = Call("set_setting", key, value, NullValue)
  /\ UNCHANGED <<waitlist, is_admin, now, resp>>

\* teardown_appcontext: the context ends and its connection is closed
close_db ==
  /\ g_db
  /\ g_db' = FALSE
  /\ call' = Call("close_db", "", NullValue, NullValue)
  /\ UNCHANGED <<waitlist, settings, is_admin, now, resp>>

SettingsNext ==
  \/ close_db
  \/ \E e \in (IF g_db THEN {ProcessEnv} ELSE EnvDraws(settings)),
        x \in (IF g_db THEN {CHOOSE y \in Salts : TRUE} ELSE SaltDraws(settings)) :
       call_get_db(e, x)
  \/ \E e \in (IF g_db THEN {ProcessEnv} ELSE EnvDraws(settings)),
        x \in (IF g_db THEN {CHOOSE y \in Salts : TRUE} ELSE SaltDraws(settings)),
        k \in SettingKeys, df \in SettingDefaults :
       call_get_setting(k, df, e, x)
  \/ \E e \in (IF g_db THEN {ProcessEnv} ELSE EnvDraws(settings)),
        x \in (IF g_db THEN {CHOOSE y \in Salts : TRUE} ELSE SaltDraws(settings)),
        k \in SettingKeys, v \in SettingValues :
       call_set_setting(k, v, e, x)

SettingsSpec == Init /\ [][SettingsNext]_vars

\* ================================================================== claims

\* ------------------------------------------------------------------ settings store
SettingStored(key) == key \in DOMAIN settings /\ ~settings[key].null

\* C7, as stated: get_setting returns the stored value when the key holds a
\* non-empty value, and the supplied default when the key is absent or its
\* value is NULL or the empty string.
C7_DefaultWhenNullOrEmpty ==
  call.op = "get_setting" =>
    call.ret.text = IF SettingStored(call.key) /\ settings[call.key].text # <<>>
                    THEN settings[call.key].text ELSE call.arg.text

\* C7, amended: get_setting returns the stored value whenever the key holds a
\* value that is not NULL, the empty string included, and the supplied default
\* only when the key is absent or its value is NULL; after set_setting(k, v)
\* with a text v, get_setting(k, d) is v for every default d.
C7_DefaultOnlyWhenAbsentOrNull ==
  /\ call.op = "get_setting" =>
       call.ret.text = IF SettingStored(call.key)
                       THEN settings[call.key].text ELSE call.arg.text
  /\ call.op = "set_setting" =>
       \A d \in SettingDefaults :
         get_setting(settings, call.key, d) = IF call.arg.null THEN d ELSE call.arg.text

\* C7's case is reached: an empty string is stored and get_setting, asked with
\* a non-empty default, has returned the empty string
C7_Witness ==
  /\ call.op = "get_setting"
  /\ SettingStored(call.key)
  /\ settings[call.key].text = <<>>
  /\ call.arg.text # <<>>
  /\ call.ret.text = <<>>

\* C9: store initialisation is idempotent and a seed, not a reset: when a call
\* of get_db opens the database, a non-empty admin_pin_hash is left as it is
\* and a missing, NULL or empty one is seeded; a display_mode row that exists
\* (such as "waitlist") is left as it is and a missing one becomes "open"; no
\* other row changes; and initialising again, under any environment and salt,
\* changes nothing.
C9_InitIsSeedNotReset ==
  [][(call'.op = "get_db" /\ ~g_db) =>
       /\ IF AdminPinMissing(settings)
          THEN ~AdminPinMissing(settings')
          ELSE settings'["admin_pin_hash"] = settings["admin_pin_hash"]
       /\ IF "display_mode" \in DOMAIN settings
          THEN settings'["display_mode"] = settings["display_mode"]
          ELSE settings'["display_mode"] = Text(OPEN)
       /\ \A k \in DOMAIN settings' \ {"admin_pin_hash", "display_mode"} :
            k \in DOMAIN settings /\ settings'[k] = settings[k]
       /\ \A e \in Environ, x \in Salts : get_db(settings', e, x) = settings'
    ]_vars

\* C9's case is reached: a fresh connection has just run the initialisation on
\* a store that already held a hash and a display_mode of "waitlist"
C9_Witness ==
  /\ call.op = "get_db"
  /\ call.ret = Text(<<"connect">>)
  /\ SettingStored("display_mode")
  /\ settings["display_mode"].text = WAITLIST
  /\ ~AdminPinMissing(settings)

\* ------------------------------------------------------------------ waitlist lifecycle
Rank(status) == CASE status = "WAITING" -> 1 [] status = "ASSIGNING" -> 2 [] OTHER -> 3

AssignDone == Response("waitlist_admin", "", <<>>)
CreateDone == Response("home", "Party added to waitlist.", <<>>)
CreateRefused ==
  Response("add_waitlist_form", "Enter name, valid phone, and seats (>0).", <<>>)
LoginDone == Response("next_url", "Logged in as admin.", <<>>)
LoginFailed == Response("admin_login", "Invalid PIN.", <<>>)
LogoutDone == Response("home", "Logged out.", <<>>)

\* a step in which a request was answered with r (the clock's own step
\* leaves the last response standing)
Answered(r) == now' = now /\ resp' = r

\* C1: an entry's status only moves forward, WAITING -> ASSIGNING -> SEATED: no
\* step lowers the rank of any entry's status.
C1_StatusOnlyMovesForward ==
  [][\A i \in DOMAIN waitlist :
       Rank(waitlist'[i].status) >= Rank(waitlist[i].status)]_vars

\* C2: soft delete is terminal: no step changes any field of an entry whose
\* deleted_at is set, and no list a request returns (home, api_waitlist,
\* waitlist_admin) holds an entry whose deleted_at is set.
C2_SoftDeleteIsTerminal ==
  [][/\ \A i \in DOMAIN waitlist :
          waitlist[i].deleted_at # NULL => waitlist'[i] = waitlist[i]
     /\ \A k \in DOMAIN resp'.rows :
          waitlist'[resp'.rows[k].id].deleted_at = NULL
    ]_vars

\* C2's case is reached: the only entry was soft-deleted at time 1 and, after
\* the delete had answered, an assign or seated request was handled at time 2
C2_Witness ==
  /\ Len(waitlist) = 1
  /\ waitlist[1].deleted_at = At(1)
  /\ waitlist[1].status = "WAITING"
  /\ now = 2
  /\ resp = AssignDone

\* C3: seated_at is written once: a step leaves a non-null seated_at as it is,
\* whatever the request and whichever entry it names, and a null seated_at
\* either stays null or becomes the time of the seated request that set it.
C3_SeatedAtSetOnce ==
  [][\A i \in DOMAIN waitlist :
       IF waitlist[i].seated_at # NULL
       THEN waitlist'[i].seated_at = waitlist[i].seated_at
       ELSE waitlist'[i].seated_at \in {NULL, At(now)}]_vars

\* C3's case is reached: an entry seated at time 1 was assigned again at time 2
\* and then seated a second time, and seated_at is still time 1
C3_Witness ==
  \E i \in DOMAIN waitlist :
    /\ waitlist[i].seated_at = At(1)
    /\ waitlist[i].assigned_at = At(2)
    /\ waitlist[i].status = "SEATED"

\* C4, as stated: assigned_at is first-write-wins: once it is non-null no step
\* changes it.
C4_AssignedAtFirstWriteWins ==
  [][\A i \in DOMAIN waitlist :
       waitlist[i].assigned_at # NULL =>
         waitlist'[i].assigned_at = waitlist[i].assigned_at]_vars

\* C4, amended: assigned_at is last-write-wins: every assign by an admin on a
\* non-deleted entry sets it to the time of that request, a second assign
\* included; nothing else changes it, so it is never cleared and never changes
\* on a deleted entry.
C4_AssignedAtLastWriteWins ==
  [][\A i \in DOMAIN waitlist :
       /\ waitlist'[i].assigned_at # waitlist[i].assigned_at =>
            /\ waitlist[i].deleted_at = NULL
            /\ waitlist'[i].assigned_at = At(now)
            /\ waitlist'[i].status = "ASSIGNING"
            /\ resp' = AssignDone
       /\ \A s \in Sessions, x \in SaltDraws(settings) :
            (/\ resp' = AssignDone
             /\ is_admin[s]
             /\ waitlist[i].deleted_at = NULL
             /\ waitlist_assign(s, i, x)) =>
              waitlist'[i].assigned_at = At(now)
    ]_vars

\* C4's case is reached: an entry that was seated at time 1 is ASSIGNING with
\* the assigned_at of an assign made at time 2
C4_Witness ==
  \E i \in DOMAIN waitlist :
    /\ waitlist[i].status = "ASSIGNING"
    /\ waitlist[i].assigned_at = At(2)
    /\ waitlist[i].seated_at = At(1)
    /\ waitlist[i].deleted_at = NULL

\* C5: the active list the public views return (home in waitlist mode,
\* api_waitlist) holds only rows of entries that are not deleted and whose
\* status is WAITING or ASSIGNING: a soft-deleted entry or one that is SEATED
\* is not in it.
C5_ActiveListOnlyActive ==
  resp.to \in {"home.html", "json"} =>
    \A k \in DOMAIN resp.rows :
      /\ resp.rows[k].id \in DOMAIN waitlist
      /\ waitlist[resp.rows[k].id].deleted_at = NULL
      /\ waitlist[resp.rows[k].id].status \in {"WAITING", "ASSIGNING"}
      /\ resp.rows[k].status = waitlist[resp.rows[k].id].status

\* C5's case is reached: home has shown a list of one entry while the table
\* holds another that is soft-deleted or seated
C5_Witness ==
  /\ resp.to = "home.html"
  /\ Len(resp.rows) = 1
  /\ Len(waitlist) = 2
  /\ \E i \in DOMAIN waitlist :
       waitlist[i].deleted_at # NULL \/ waitlist[i].status = "SEATED"

\* what C6 asks of the form, said without the handler's helpers
HasInk(name_in) == \E k \in DOMAIN name_in : name_in[k] \notin WS
HasPhoneChar(phone_in) ==
  \E k \in DOMAIN phone_in : phone_in[k] \in DigitChars \cup {"+"}
FormAcceptable(name_in, phone_in, seats_in) ==
  HasInk(name_in) /\ HasPhoneChar(phone_in) /\ form_int(seats_in) > 0

\* C6: create inserts a row exactly when the name is non-empty after trimming,
\* the phone is non-empty after normalization and seats parses to an integer
\* > 0. A refused form leaves the table as it was; an accepted one appends one
\* row with the next id, status WAITING, requested_at equal to requesttime (the
\* time of the request), the other timestamps null and the normalized fields of
\* an acceptable form, and changes no existing row; nothing else adds a row.
C6_CreateInsertsExactlyWhenValid ==
  [][/\ Answered(CreateRefused) => waitlist' = waitlist
     /\ Len(waitlist') # Len(waitlist) => Answered(CreateDone)
     /\ Answered(CreateDone) =>
          /\ Len(waitlist') = Len(waitlist) + 1
          /\ \A i \in DOMAIN waitlist : waitlist'[i] = waitlist[i]
          /\ waitlist'[Len(waitlist')].status = "WAITING"
          /\ waitlist'[Len(waitlist')].requesttime = now
          /\ waitlist'[Len(waitlist')].requested_at =
               At(waitlist'[Len(waitlist')].requesttime)
          /\ waitlist'[Len(waitlist')].assigned_at = NULL
          /\ waitlist'[Len(waitlist')].seated_at = NULL
          /\ waitlist'[Len(waitlist')].deleted_at = NULL
          /\ \E n \in NameInputs, p \in PhoneInputs, se \in SeatsInputs :
               /\ FormAcceptable(n, p, se)
               /\ waitlist'[Len(waitlist')].name = strip(n)
               /\ waitlist'[Len(waitlist')].phone = normalize_phone(p)
               /\ waitlist'[Len(waitlist')].seats = form_int(se)
          /\ \A n \in NameInputs, p \in PhoneInputs, se \in SeatsInputs,
                no \in NotesInputs, x \in SaltDraws(settings) :
               add_waitlist_submit(n, p, no, se, x) => FormAcceptable(n, p, se)
          /\ \A n \in NameInputs, p \in PhoneInputs, se \in SeatsInputs :
               FormAcceptable(n, p, se) =>
                 form_valid(strip(n), normalize_phone(p), form_int(se))
    ]_vars

\* C6's case is reached: a second party was added while the first, already
\* seated, kept its row
C6_Witness ==
  /\ resp = CreateDone
  /\ Len(waitlist) = 2
  /\ waitlist[1].status = "SEATED"
  /\ waitlist[2].status = "WAITING"
  /\ waitlist[2].requested_at = At(waitlist[2].requesttime)

\* a PIN that is the one the stored hash was made from
PinMatches(st, pin_in) ==
  /\ "admin_pin_hash" \in DOMAIN st
  /\ \E x \in Salts :
       st["admin_pin_hash"] = Text(generate_password_hash(strip(pin_in), x))

\* C8: nothing is changed without the admin capability: assign, seated, delete,
\* display_start and display_stop from a session whose is_admin flag is absent
\* leave the waitlist and settings tables as they were; a login sets the flag
\* of its own session exactly when its PIN matches the stored hash and changes
\* no flag otherwise; a flag is set by nothing but a login and cleared by
\* nothing but a logout, which always clears it.
C8_AdminGate ==
  [][/\ (waitlist' # waitlist \/ settings' # settings) =>
          \A s \in Sessions : ~is_admin[s] =>
            \A x \in SaltDraws(settings) :
              /\ ~display_start(s, x)
              /\ ~display_stop(s, x)
              /\ \A i \in ItemIds :
                   /\ ~waitlist_assign(s, i, x)
                   /\ ~waitlist_seated(s, i, x)
                   /\ ~waitlist_delete(s, i, x)
     /\ Answered(LoginRequired) => UNCHANGED <<waitlist, settings, is_admin>>
     /\ (\E i \in DOMAIN waitlist : waitlist'[i] # waitlist[i]) =>
          \E s \in Sessions : is_admin[s]
     /\ ("display_mode" \in DOMAIN settings
           /\ settings'["display_mode"] # settings["display_mode"]) =>
          \E s \in Sessions : is_admin[s]
     /\ (Answered(LoginDone) \/ Answered(LoginFailed)) =>
          \A s \in Sessions, pin \in PinInputs, x \in SaltDraws(settings) :
            admin_login_post(s, pin, x) =>
              /\ is_admin'[s] = (is_admin[s] \/ PinMatches(settings', pin))
              /\ \A o \in Sessions \ {s} : is_admin'[o] = is_admin[o]
     /\ \A s \in Sessions :
          /\ (~is_admin[s] /\ is_admin'[s]) => Answered(LoginDone)
          /\ (is_admin[s] /\ ~is_admin'[s]) => Answered(LogoutDone)
          /\ (Answered(LogoutDone) /\ admin_logout(s)) => ~is_admin'[s]
    ]_vars

\* C8's case is reached: with entries on the list and the display showing the
\* waitlist, a request of the session that is not admin was turned away while
\* the other session is logged in
C8_Witness ==
  /\ resp = LoginRequired
  /\ is_admin["s1"] /\ ~is_admin["s2"]
  /\ waitlist # <<>>
  /\ SettingStored("display_mode")
  /\ settings["display_mode"].text = WAITLIST

\* C10: status and timestamps agree: every SEATED entry has a seated_at, every
\* ASSIGNING entry has an assigned_at, and every entry's requested_at is its
\* requesttime.
C10_StatusMatchesTimestamps ==
  \A i \in DOMAIN waitlist :
    /\ waitlist[i].status = "SEATED" => waitlist[i].seated_at # NULL
    /\ waitlist[i].status = "ASSIGNING" => waitlist[i].assigned_at # NULL
    /\ waitlist[i].requested_at = At(waitlist[i].requesttime)

\* C10's case is reached: one entry is SEATED and another ASSIGNING, the second
\* of them soft-deleted afterwards
C10_Witness ==
  \E i, j \in DOMAIN waitlist :
    /\ waitlist[i].status = "SEATED"
    /\ waitlist[j].status = "ASSIGNING"
    /\ waitlist[j].deleted_at # NULL
====
